---- MODULE Spec2Model ----
(***************************************************************************)
(* Model of codegen/src/type_gen.rs: the build-time generator that turns   *)
(* the pg_range.h and pg_type.h snapshots into types/type_gen.rs.          *)
(*                                                                         *)
(* Text is modelled as sequences of one-character strings, so that         *)
(* starts_with, split_whitespace, str::parse and the three regular         *)
(* expressions are computed on the characters, as the code computes them.  *)
(* A snapshot is the sequence of its lines (the result of str::lines).     *)
(***************************************************************************)
EXTENDS Integers, Sequences, FiniteSets, TLC

VARIABLES
    pg_range_h,   \* PG_RANGE_H.lines(): the range snapshot
    pg_type_h,    \* PG_TYPE_H.lines(): the type snapshot
    pc,           \* position of build
    ri,           \* next line of pg_range_h parse_ranges reads
    ti,           \* next line of pg_type_h parse_types reads
    ranges,       \* BTreeMap<u32, u32> of parse_ranges
    types,        \* BTreeMap<u32, Type> of parse_types
    created,      \* File::create has created or truncated types/type_gen.rs
    buf,          \* what has been written to the BufWriter
    disk          \* what the BufWriter has flushed to the file

vars == <<pg_range_h, pg_type_h, pc, ri, ti, ranges, types, created, buf, disk>>

(***************************************************************************)
(* Bounds of the model.                                                    *)
(***************************************************************************)
MaxRangeLines == 2
MaxTypeLines == 3

(***************************************************************************)
(* Characters and strings.                                                 *)
(***************************************************************************)
LowerCase == <<"a","b","c","d","e","f","g","h","i","j","k","l","m",
               "n","o","p","q","r","s","t","u","v","w","x","y","z">>
UpperCase == <<"A","B","C","D","E","F","G","H","I","J","K","L","M",
               "N","O","P","Q","R","S","T","U","V","W","X","Y","Z">>
Digits == <<"0","1","2","3","4","5","6","7","8","9">>

\* char::to_ascii_uppercase
ToAsciiUppercase(ch) ==
    IF \E i \in DOMAIN LowerCase : LowerCase[i] = ch
    THEN UpperCase[CHOOSE i \in DOMAIN LowerCase : LowerCase[i] = ch]
    ELSE ch

\* str::to_ascii_uppercase
StrToAsciiUppercase(s) == [i \in DOMAIN s |-> ToAsciiUppercase(s[i])]

\* char::is_whitespace, on the characters of the model
IsWhitespace(ch) == ch \in {" ", "\t"}

\* str::starts_with
StartsWith(s, prefix) ==
    /\ Len(s) >= Len(prefix)
    /\ SubSeq(s, 1, Len(prefix)) = prefix

\* str::ends_with
EndsWith(s, suffix) ==
    /\ Len(s) >= Len(suffix)
    /\ SubSeq(s, Len(s) - Len(suffix) + 1, Len(s)) = suffix

\* str::split_whitespace().collect::<Vec<_>>(): the maximal runs of
\* non-whitespace characters, in order.  cur is the run being read.
RECURSIVE SplitFrom(_, _, _)
SplitFrom(s, cur, acc) ==
    IF s = <<>>
    THEN IF cur = <<>> THEN acc ELSE Append(acc, cur)
    ELSE IF IsWhitespace(Head(s))
         THEN SplitFrom(Tail(s), <<>>, IF cur = <<>> THEN acc ELSE Append(acc, cur))
         ELSE SplitFrom(Tail(s), Append(cur, Head(s)), acc)

SplitWhitespace(line) == SplitFrom(line, <<>>, <<>>)

\* Vec indexing split[i], 0-indexed as in the source; out of range panics.
InRange(split, i) == i < Len(split)
At(split, i) == split[i + 1]

\* str::parse::<u32>().  ok = FALSE is Err, on which unwrap panics.  The
\* tokens of the bounded snapshots are short, so u32 overflow is not reached.
RECURSIVE DigitsValue(_, _)
DigitsValue(s, acc) ==
    IF s = <<>> THEN acc
    ELSE DigitsValue(Tail(s),
             acc * 10 + ((CHOOSE i \in DOMAIN Digits : Digits[i] = Head(s)) - 1))

ParseU32(tok) ==
    IF /\ tok # <<>>
       /\ \A i \in DOMAIN tok : \E d \in DOMAIN Digits : Digits[d] = tok[i]
    THEN [ok |-> TRUE, val |-> DigitsValue(tok, 0)]
    ELSE [ok |-> FALSE, val |-> 0]

(***************************************************************************)
(* The regular expressions of parse_types.  Regex::replace rewrites the    *)
(* leftmost match only; each of these patterns is anchored, so there is at *)
(* most one.                                                               *)
(***************************************************************************)
Str_range == <<"r","a","n","g","e">>
Str_vector == <<"v","e","c","t","o","r">>
Str_array == <<"_","a","r","r","a","y">>
Str_anyarray == <<"a","n","y","a","r","r","a","y">>
Str_AnyArray == <<"A","n","y","A","r","r","a","y">>
Str_DATA == <<"D","A","T","A">>
Str_DESCR == <<"D","E","S","C","R","(","\"">>

\* range_vector_re.replace(name, "_$1") with range_vector_re = (range|vector)$
RangeVectorReplace(name) ==
    IF EndsWith(name, Str_range)
    THEN SubSeq(name, 1, Len(name) - Len(Str_range)) \o <<"_">> \o Str_range
    ELSE IF EndsWith(name, Str_vector)
    THEN SubSeq(name, 1, Len(name) - Len(Str_vector)) \o <<"_">> \o Str_vector
    ELSE name

\* array_re.replace(s, "$1_array") with array_re = ^_(.*)
ArrayReplace(s) ==
    IF s # <<>> /\ Head(s) = "_" THEN Tail(s) \o Str_array ELSE s

\* array_re.replace(name, "$1[]")
ArrayDocReplace(name) ==
    IF name # <<>> /\ Head(name) = "_" THEN Tail(name) \o <<"[","]">> ELSE name

\* snake_to_camel (defined in the crate root): every underscore is dropped
\* and the character after it, like the first one, is upper-cased.
RECURSIVE SnakeToCamelFrom(_, _)
SnakeToCamelFrom(s, upper) ==
    IF s = <<>> THEN <<>>
    ELSE IF Head(s) = "_" THEN SnakeToCamelFrom(Tail(s), TRUE)
    ELSE <<IF upper THEN ToAsciiUppercase(Head(s)) ELSE Head(s)>>
             \o SnakeToCamelFrom(Tail(s), FALSE)

snake_to_camel(s) == SnakeToCamelFrom(s, TRUE)

\* The variant label of a type name (the match on name in parse_types).
Variant(name) ==
    IF name = Str_anyarray THEN Str_AnyArray
    ELSE snake_to_camel(ArrayReplace(RangeVectorReplace(name)))

\* doc_re.captures(line).at(1) with doc_re = DESCR\("([^"]+)"\): the leftmost
\* place where DESCR(" is followed by a non-empty run of characters other
\* than the double quote, and that run by ").
RunEnd(line, from) ==
    IF \E j \in from..Len(line) : line[j] = "\""
    THEN (CHOOSE j \in from..Len(line) :
              line[j] = "\"" /\ \A k \in from..(j - 1) : line[k] # "\"") - 1
    ELSE Len(line)

DocMatchAt(line, p) ==
    LET from == p + Len(Str_DESCR)
        to == RunEnd(line, from)
    IN  /\ p + Len(Str_DESCR) - 1 <= Len(line)
        /\ SubSeq(line, p, p + Len(Str_DESCR) - 1) = Str_DESCR
        /\ to >= from
        /\ to + 2 <= Len(line)
        /\ line[to + 1] = "\""
        /\ line[to + 2] = ")"

DocCapture(line) ==
    IF \E p \in 1..Len(line) : DocMatchAt(line, p)
    THEN LET p == CHOOSE q \in 1..Len(line) :
                      DocMatchAt(line, q) /\ \A r \in 1..(q - 1) : ~DocMatchAt(line, r)
             from == p + Len(Str_DESCR)
         IN  [found |-> TRUE, text |-> SubSeq(line, from, RunEnd(line, from))]
    ELSE [found |-> FALSE, text |-> <<>>]

\* marksman_escape::Escape, on the characters of the model.
EscapeChar(ch) ==
    IF ch = "<" THEN <<"&","l","t",";">>
    ELSE IF ch = ">" THEN <<"&","g","t",";">>
    ELSE IF ch = "&" THEN <<"&","a","m","p",";">>
    ELSE <<ch>>

RECURSIVE Escape(_)
Escape(s) == IF s = <<>> THEN <<>> ELSE EscapeChar(Head(s)) \o Escape(Tail(s))

\* The doc string of a row: next is lines.peek(), a sequence holding the
\* following line, or empty at the end of the snapshot.
Doc(name, next) ==
    LET base == StrToAsciiUppercase(ArrayDocReplace(name))
        descr == IF next = <<>> THEN [found |-> FALSE, text |-> <<>>]
                 ELSE DocCapture(next[1])
    IN  Escape(IF descr.found THEN base \o <<" ","-"," ">> \o descr.text ELSE base)

(***************************************************************************)
(* The two BTreeMaps.  A map is a function on its set of keys; iteration   *)
(* visits the keys in ascending order.                                     *)
(***************************************************************************)
EmptyMap == [k \in {} |-> 0]

\* BTreeMap::insert: a later value for a key replaces the earlier one.
MapInsert(m, k, v) == [x \in DOMAIN m \cup {k} |-> IF x = k THEN v ELSE m[x]]

\* SortedKeys, as if the catalog were iterated from the greatest key down.
RECURSIVE SortedKeys_Descending(_)
SortedKeys_Descending(S) ==
    IF S = {} THEN <<>>
    ELSE LET greatest == CHOOSE k \in S : \A other \in S : k >= other
         IN  <<greatest>> \o SortedKeys_Descending(S \ {greatest})

\* The keys of a BTreeMap in iteration order.
RECURSIVE SortedKeys(_)
SortedKeys(S) ==
    IF S = {} THEN <<>>
    ELSE LET least == CHOOSE k \in S : \A other \in S : k <= other
         IN  <<least>> \o SortedKeys(S \ {least})

(***************************************************************************)
(* parse_ranges: one iteration of the loop over PG_RANGE_H.lines().        *)
(***************************************************************************)
\* RangeEntry, as if the row were read at split[3] and split[4].
RangeEntry_Fields34(split) ==
    [oid |-> IF InRange(split, 3) THEN ParseU32(At(split, 3)) ELSE [ok |-> FALSE, val |-> 0],
     element |-> IF InRange(split, 4) THEN ParseU32(At(split, 4)) ELSE [ok |-> FALSE, val |-> 0]]

\* The entry of a DATA row: split[2] and split[3], each parsed as u32.
RangeEntry(split) ==
    [oid |-> ParseU32(At(split, 2)), element |-> ParseU32(At(split, 3))]

\* Whether the row panics: an index out of range or an unwrap of Err.
RangeRowPanics(split) ==
    \/ ~InRange(split, 3)
    \/ ~RangeEntry(split).oid.ok
    \/ ~RangeEntry(split).element.ok

ParseRanges ==
    /\ pc = "parse_ranges"
    /\ IF ri > Len(pg_range_h)
       THEN /\ pc' = "parse_types"
            /\ UNCHANGED <<ri, ranges, disk>>
       ELSE LET line == pg_range_h[ri]
                split == SplitWhitespace(line)
            IN  IF ~StartsWith(line, Str_DATA)
                THEN /\ ri' = ri + 1
                     /\ UNCHANGED <<pc, ranges, disk>>
                ELSE IF RangeRowPanics(split)
                THEN /\ pc' = "aborted"
                     /\ disk' = buf
                     /\ UNCHANGED <<ri, ranges>>
                ELSE /\ ranges' = MapInsert(ranges, RangeEntry(split).oid.val,
                                            RangeEntry(split).element.val)
                     /\ ri' = ri + 1
                     /\ UNCHANGED <<pc, disk>>
    /\ UNCHANGED <<pg_range_h, pg_type_h, ti, types, created, buf>>

(***************************************************************************)
(* parse_types: one iteration of the loop over PG_TYPE_H.lines().          *)
(***************************************************************************)
\* Filtered, as if only composite rows were skipped.
Filtered_OnlyComposite(kind) == kind = <<"C">>

\* kind == "C" || kind == "E": composite and enum rows are skipped.
Filtered(kind) == kind = <<"C">> \/ kind = <<"E">>

\* The row panics before the composite/enum test: split[3], its parse,
\* split[5] or split[11].
TypeRowPanicsEarly(split) ==
    \/ ~InRange(split, 3)
    \/ ~ParseU32(At(split, 3)).ok
    \/ ~InRange(split, 5)
    \/ ~InRange(split, 11)

\* Element, as if a missing or non-numeric split[16] fell back to 0.
Element_DefaultsToZero(split, oid, rmap) ==
    IF oid \in DOMAIN rmap THEN [ok |-> TRUE, val |-> rmap[oid]]
    ELSE IF InRange(split, 16) /\ ParseU32(At(split, 16)).ok THEN ParseU32(At(split, 16))
    ELSE [ok |-> TRUE, val |-> 0]

\* The element of a retained row: the range map's entry for its oid, or
\* else split[16] parsed.  ok = FALSE is the panic of that index or unwrap.
Element(split, oid, rmap) ==
    IF oid \in DOMAIN rmap THEN [ok |-> TRUE, val |-> rmap[oid]]
    ELSE IF ~InRange(split, 16) THEN [ok |-> FALSE, val |-> 0]
    ELSE ParseU32(At(split, 16))

\* The Type of a retained row; next is lines.peek().
TypeOf(split, element, next) ==
    [name |-> At(split, 5),
     variant |-> Variant(At(split, 5)),
     kind |-> At(split, 11),
     element |-> element,
     doc |-> Doc(At(split, 5), next)]

ParseTypes ==
    /\ pc = "parse_types"
    /\ IF ti > Len(pg_type_h)
       THEN /\ pc' = "make_header"
            /\ UNCHANGED <<ti, types, disk>>
       ELSE LET line == pg_type_h[ti]
                split == SplitWhitespace(line)
                oid == ParseU32(At(split, 3)).val
                next == IF ti < Len(pg_type_h) THEN <<pg_type_h[ti + 1]>> ELSE <<>>
            IN  IF ~StartsWith(line, Str_DATA)
                THEN /\ ti' = ti + 1
                     /\ UNCHANGED <<pc, types, disk>>
                ELSE IF TypeRowPanicsEarly(split)
                THEN /\ pc' = "aborted"
                     /\ disk' = buf
                     /\ UNCHANGED <<ti, types>>
                ELSE IF Filtered(At(split, 11))
                THEN /\ ti' = ti + 1
                     /\ UNCHANGED <<pc, types, disk>>
                ELSE IF ~Element(split, oid, ranges).ok
                THEN /\ pc' = "aborted"
                     /\ disk' = buf
                     /\ UNCHANGED <<ti, types>>
                ELSE /\ types' = MapInsert(types, oid,
                                     TypeOf(split, Element(split, oid, ranges).val, next))
                     /\ ti' = ti + 1
                     /\ UNCHANGED <<pc, disk>>
    /\ UNCHANGED <<pg_range_h, pg_type_h, ri, ranges, created, buf>>

(***************************************************************************)
(* The emitter.  The generated text is a sequence of blocks; a block that  *)
(* the code writes with one arm per record holds the arms as its entries,  *)
(* in the order written.                                                   *)
(***************************************************************************)
Block(name, entries) == [block |-> name, entries |-> entries]

\* The records of the catalog in iteration order (types.values()).
Values(tmap) == [i \in 1..Cardinality(DOMAIN tmap) |-> tmap[SortedKeys(DOMAIN tmap)[i]]]

\* make_enum: "/// doc" and "variant," for every record.
EnumEntries(tmap) ==
    [i \in DOMAIN Values(tmap) |->
        [doc |-> Values(tmap)[i].doc, variant |-> Values(tmap)[i].variant]]

\* make_impl, from_oid: "oid => Some(Type::variant)," for every record.
FromOidEntries(tmap) ==
    [i \in DOMAIN Values(tmap) |->
        [oid |-> SortedKeys(DOMAIN tmap)[i], variant |-> Values(tmap)[i].variant]]

\* make_impl, oid: "Type::variant => oid," for every record.
OidEntries(tmap) ==
    [i \in DOMAIN Values(tmap) |->
        [variant |-> Values(tmap)[i].variant, oid |-> SortedKeys(DOMAIN tmap)[i]]]

\* types[&type_.element] panics when the element is no key of the catalog;
\* it is evaluated for the kinds "A" and "R" only.
ElementMissing(tmap, t) ==
    /\ t.kind \in {<<"A">>, <<"R">>}
    /\ t.element \notin DOMAIN tmap

\* The Kind expression of a record whose element resolves.
KindOf(tmap, t) ==
    IF t.kind = <<"P">> THEN [ctor |-> "Pseudo", arg |-> <<>>]
    ELSE IF t.kind = <<"A">> THEN [ctor |-> "Array", arg |-> tmap[t.element].variant]
    ELSE IF t.kind = <<"R">> THEN [ctor |-> "Range", arg |-> tmap[t.element].variant]
    ELSE [ctor |-> "Simple", arg |-> <<>>]

\* How many arms of the kind block are written: all of them, or those
\* before the first record whose element is missing.
KindArms(tmap) ==
    IF \E i \in DOMAIN Values(tmap) : ElementMissing(tmap, Values(tmap)[i])
    THEN (CHOOSE i \in DOMAIN Values(tmap) :
              /\ ElementMissing(tmap, Values(tmap)[i])
              /\ \A j \in 1..(i - 1) : ~ElementMissing(tmap, Values(tmap)[j])) - 1
    ELSE Len(Values(tmap))

\* make_impl, kind: "Type::variant => Kind::kind" for every record.
KindEntries(tmap) ==
    [i \in 1..KindArms(tmap) |->
        [variant |-> Values(tmap)[i].variant, kind |-> KindOf(tmap, Values(tmap)[i])]]

\* make_impl, name: "Type::variant => name," for every record.
NameEntries(tmap) ==
    [i \in DOMAIN Values(tmap) |->
        [variant |-> Values(tmap)[i].variant, name |-> Values(tmap)[i].name]]

\* File::create(path.join("types/type_gen.rs")), wrapped in a BufWriter.
\* The file exists and is empty from here on.
Create ==
    /\ pc = "create"
    /\ created' = TRUE
    /\ disk' = <<>>
    /\ pc' = "parse_ranges"
    /\ UNCHANGED <<pg_range_h, pg_type_h, ri, ti, ranges, types, buf>>

MakeHeader ==
    /\ pc = "make_header"
    /\ buf' = Append(buf, Block("header", <<>>))
    /\ pc' = "make_enum"
    /\ UNCHANGED <<pg_range_h, pg_type_h, ri, ti, ranges, types, created, disk>>

MakeEnum ==
    /\ pc = "make_enum"
    /\ buf' = Append(buf, Block("enum", EnumEntries(types)))
    /\ pc' = "make_display_impl"
    /\ UNCHANGED <<pg_range_h, pg_type_h, ri, ti, ranges, types, created, disk>>

MakeDisplayImpl ==
    /\ pc = "make_display_impl"
    /\ buf' = Append(buf, Block("display", <<>>))
    /\ pc' = "make_impl"
    /\ UNCHANGED <<pg_range_h, pg_type_h, ri, ti, ranges, types, created, disk>>

\* MakeImpl, as if a record whose element is missing were written as
\* Kind::Simple instead of panicking.
MakeImpl_MissingIsSimple ==
    /\ pc = "make_impl"
    /\ buf' = buf \o
         <<Block("from_oid", FromOidEntries(types)),
           Block("oid", OidEntries(types)),
           Block("kind",
                 [i \in DOMAIN Values(types) |->
                     [variant |-> Values(types)[i].variant,
                      kind |-> IF ElementMissing(types, Values(types)[i])
                               THEN [ctor |-> "Simple", arg |-> <<>>]
                               ELSE KindOf(types, Values(types)[i])]]),
           Block("name", NameEntries(types))>>
    /\ disk' = disk
    /\ pc' = "finish"
    /\ UNCHANGED <<pg_range_h, pg_type_h, ri, ti, ranges, types, created>>

\* make_impl writes the from_oid and oid arms, then the kind arms, where a
\* missing element panics, then the name arms.  A panic unwinds through
\* build and drops the BufWriter, which flushes what was written.
MakeImpl ==
    /\ pc = "make_impl"
    /\ IF KindArms(types) < Len(Values(types))
       THEN /\ buf' = buf \o <<Block("from_oid", FromOidEntries(types)),
                               Block("oid", OidEntries(types)),
                               Block("kind", KindEntries(types))>>
            /\ disk' = buf'
            /\ pc' = "aborted"
       ELSE /\ buf' = buf \o <<Block("from_oid", FromOidEntries(types)),
                               Block("oid", OidEntries(types)),
                               Block("kind", KindEntries(types)),
                               Block("name", NameEntries(types))>>
            /\ disk' = disk
            /\ pc' = "finish"
    /\ UNCHANGED <<pg_range_h, pg_type_h, ri, ti, ranges, types, created>>

\* build returns: the BufWriter is dropped and flushes to the file.
Finish ==
    /\ pc = "finish"
    /\ disk' = buf
    /\ pc' = "done"
    /\ UNCHANGED <<pg_range_h, pg_type_h, ri, ti, ranges, types, created, buf>>

Next ==
    \/ Create
    \/ ParseRanges
    \/ ParseTypes
    \/ MakeHeader
    \/ MakeEnum
    \/ MakeDisplayImpl
    \/ MakeImpl
    \/ Finish

(***************************************************************************)
(* The snapshots.  PG_RANGE_H and PG_TYPE_H are compiled in; the model     *)
(* draws them from small sets of lines in the layout of the two headers:   *)
(*   DATA(insert ( oid element ...                          (pg_range.h)   *)
(*   DATA(insert OID = oid ( name ... kind ... element ...  (pg_type.h)    *)
(***************************************************************************)
RECURSIVE Join(_)
Join(tokens) ==
    IF tokens = <<>> THEN <<>>
    ELSE IF Len(tokens) = 1 THEN tokens[1]
    ELSE tokens[1] \o <<" ">> \o Join(Tail(tokens))

Tok_DATA == <<"D","A","T","A","(","i","n","s","e","r","t">>
Tok_f == <<"f">>

\* The first n fields of a pg_type.h row.
TypeRow(oid, name, kind, elem, n) ==
    Join(SubSeq(<<Tok_DATA, <<"O","I","D">>, <<"=">>, oid, <<"(">>, name,
                  Tok_f, Tok_f, Tok_f, Tok_f, Tok_f, kind,
                  Tok_f, Tok_f, Tok_f, <<"0">>, elem>>, 1, n))

\* A pg_range.h row with the given fields after "DATA(insert (".
RangeRow(fields) == Join(<<Tok_DATA, <<"(">>>> \o fields)

Name_x == <<"x">>
Name_ax == <<"_","x">>
Name_x_array == <<"x","_","a","r","r","a","y">>
Name_xrange == <<"x","r","a","n","g","e">>
Name_x_range == <<"x","_","r","a","n","g","e">>
Name_any == <<"_","a","n","y">>
Name_xvector == <<"x","v","e","c","t","o","r">>

Line_x == TypeRow(<<"1">>, Name_x, <<"B">>, <<"0">>, 17)
Line_ax == TypeRow(<<"2">>, Name_ax, <<"A">>, <<"1">>, 17)
Line_x_array == TypeRow(<<"1">>, Name_x_array, <<"P">>, <<"0">>, 17)
Line_c == TypeRow(<<"1">>, <<"c">>, <<"C">>, <<"0">>, 17)
Line_e == TypeRow(<<"4">>, <<"e">>, <<"E">>, <<"0">>, 17)
Line_ae == TypeRow(<<"2">>, <<"_","e">>, <<"A">>, <<"4">>, 17)
Line_xrange == TypeRow(<<"5">>, Name_xrange, <<"R">>, <<"0">>, 17)
Line_descr == Str_DESCR \o <<"<","d","\"",")",";">>
Line_badoid == TypeRow(<<"z">>, Name_x, <<"B">>, <<"0">>, 17)

Range_5_1 == RangeRow(<<<<"5">>, <<"1">>, <<"0">>, <<"9">>>>)

RangeLines == {Range_5_1}

TypeLines ==
    {Line_x, Line_ax, Line_x_array, Line_c, Line_e, Line_ae, Line_xrange}

\* Rows that miss fields or carry a non-numeric oid or element field.
MalformedTypeLines ==
    {Line_x,
     TypeRow(<<"1">>, Name_x, <<"B">>, <<"0">>, 3),
     TypeRow(<<"1">>, Name_x, <<"B">>, <<"0">>, 6),
     TypeRow(<<"1">>, Name_x, <<"B">>, <<"0">>, 12),
     TypeRow(<<"4">>, <<"c">>, <<"C">>, <<"0">>, 12),
     TypeRow(<<"5">>, Name_xrange, <<"R">>, <<"0">>, 12),
     Line_badoid,
     TypeRow(<<"z">>, <<"c">>, <<"C">>, <<"0">>, 17),
     TypeRow(<<"1">>, Name_x, <<"B">>, <<"z">>, 17),
     TypeRow(<<"4">>, <<"c">>, <<"C">>, <<"z">>, 17),
     TypeRow(<<"5">>, Name_xrange, <<"R">>, <<"z">>, 17)}

\* Range rows of every shape, and lines that are no rows.
WideRangeLines ==
    {Range_5_1,
     RangeRow(<<<<"5">>, <<"2">>, <<"0">>, <<"9">>>>),
     RangeRow(<<<<"6">>, <<"1">>, <<"0">>, <<"9">>>>),
     RangeRow(<<<<"5">>, <<"1">>>>),
     RangeRow(<<<<"5">>>>),
     RangeRow(<<<<"z">>, <<"1">>, <<"0">>, <<"9">>>>),
     RangeRow(<<<<"5">>, <<"z">>, <<"0">>, <<"9">>>>),
     <<"/","*"," ","x"," ","*","/">>,
     <<" ">> \o Range_5_1}

FewTypeLines == {Line_x, Line_xrange}

\* Well-formed rows of simple types, one oid per name, and a DESCR line.
NameLines ==
    {TypeRow(<<"1">>, Name_x, <<"B">>, <<"0">>, 17),
     TypeRow(<<"2">>, Name_ax, <<"B">>, <<"0">>, 17),
     TypeRow(<<"3">>, Name_x_array, <<"B">>, <<"0">>, 17),
     TypeRow(<<"4">>, Name_xrange, <<"B">>, <<"0">>, 17),
     TypeRow(<<"5">>, Name_x_range, <<"B">>, <<"0">>, 17),
     TypeRow(<<"6">>, Str_anyarray, <<"B">>, <<"0">>, 17),
     TypeRow(<<"7">>, Name_any, <<"B">>, <<"0">>, 17),
     TypeRow(<<"8">>, Name_xvector, <<"B">>, <<"0">>, 17),
     Line_descr}

SeqsUpTo(S, n) == UNION {[1..k -> S] : k \in 0..n}

\* The state when build is entered with the given snapshots.
InitOn(rangeLines, typeLines) ==
    /\ pg_range_h \in SeqsUpTo(rangeLines, MaxRangeLines)
    /\ pg_type_h \in SeqsUpTo(typeLines, MaxTypeLines)
    /\ pc = "create"
    /\ ri = 1
    /\ ti = 1
    /\ ranges = EmptyMap
    /\ types = EmptyMap
    /\ created = FALSE
    /\ buf = <<>>
    /\ disk = <<>>

Init == InitOn(RangeLines, TypeLines)

Spec == Init /\ [][Next]_vars

InitMalformed == InitOn(RangeLines, MalformedTypeLines)

SpecMalformed == InitMalformed /\ [][Next]_vars

InitRanges == InitOn(WideRangeLines, FewTypeLines)

SpecRanges == InitRanges /\ [][Next]_vars

InitNames == InitOn(RangeLines, NameLines)

SpecNames == InitNames /\ [][Next]_vars

(***************************************************************************)
(* What the generated lookups compute: a match takes its first arm that    *)
(* fits.                                                                   *)
(***************************************************************************)
\* Type::from_oid: the variant of the first arm for the oid, or None.
FromOid(arms, oid) ==
    IF \E i \in DOMAIN arms : arms[i].oid = oid
    THEN [found |-> TRUE,
          variant |-> arms[CHOOSE i \in DOMAIN arms :
                              /\ arms[i].oid = oid
                              /\ \A j \in 1..(i - 1) : arms[j].oid # oid].variant]
    ELSE [found |-> FALSE, variant |-> <<>>]

\* Type::oid on a generated variant: the oid of the first arm for it.
OidOfVariant(arms, variant) ==
    arms[CHOOSE i \in DOMAIN arms :
            /\ arms[i].variant = variant
            /\ \A j \in 1..(i - 1) : arms[j].variant # variant].oid

(***************************************************************************)
(* Vocabulary of the properties: the rows of the type snapshot as its      *)
(* fixed grammar reads them, and the blocks of the generated text.         *)
(***************************************************************************)
DataRow(line) == StartsWith(line, Str_DATA)

\* A line of the type snapshot, read field by field: whether it is a data
\* row, how many fields it has, and its oid, name, kind and static
\* element-oid fields where it has them.
Row(line) ==
    LET split == SplitWhitespace(line)
        absent == [ok |-> FALSE, val |-> 0]
    IN  [data |-> DataRow(line),
         fields |-> Len(split),
         oid |-> IF InRange(split, 3) THEN ParseU32(At(split, 3)) ELSE absent,
         name |-> IF InRange(split, 5) THEN At(split, 5) ELSE <<>>,
         kind |-> IF InRange(split, 11) THEN At(split, 11) ELSE <<>>,
         element |-> IF InRange(split, 16) THEN ParseU32(At(split, 16)) ELSE absent]

\* A data row whose oid, name and kind can be read.
Readable(row) == row.data /\ row.fields >= 12 /\ row.oid.ok

CompositeOrEnum(row) == Readable(row) /\ row.kind \in {<<"C">>, <<"E">>}
Retained(row) == Readable(row) /\ row.kind \notin {<<"C">>, <<"E">>}

TypeRows == [i \in DOMAIN pg_type_h |-> Row(pg_type_h[i])]

\* The blocks written so far, by name, and the arms of one of them.
BlockNames == [i \in DOMAIN buf |-> buf[i].block]
HasBlock(name) == \E i \in DOMAIN buf : buf[i].block = name
Arms(name) == buf[CHOOSE i \in DOMAIN buf : buf[i].block = name].entries

BlockOrder == <<"header", "enum", "display", "from_oid", "oid", "kind", "name">>
RecordBlocks == {"enum", "from_oid", "oid", "kind", "name"}

Emitting == pc \in {"make_enum", "make_display_impl", "make_impl", "finish", "done"}
Completed == pc \in {"finish", "done"}

(***************************************************************************)
(* C1.  A run that aborts leaves no output: at the abort the destination   *)
(* file has not been created or truncated and holds no generated block.    *)
(* The code creates the file before it parses, so this fails.              *)
(***************************************************************************)
C1_AbortWritesNothing == pc = "aborted" => (~created /\ disk = <<>>)

(***************************************************************************)
(* C2.  Whenever a run completes emission, every record of kind Array or   *)
(* Range has an element oid that is a key of the catalog, and each such    *)
(* record has its arm in the kind block, naming the element's variant: a   *)
(* record with a missing element is neither dropped nor written without    *)
(* its element.                                                            *)
(***************************************************************************)
C2_ElementsResolve ==
    Completed =>
        /\ \A o \in DOMAIN types :
              types[o].kind \in {<<"A">>, <<"R">>} => types[o].element \in DOMAIN types
        /\ Len(Arms("kind")) = Cardinality(DOMAIN types)
        /\ \A o \in DOMAIN types :
              types[o].kind \in {<<"A">>, <<"R">>} =>
                 \E i \in DOMAIN Arms("kind") :
                    /\ Arms("kind")[i].variant = types[o].variant
                    /\ Arms("kind")[i].kind.ctor \in {"Array", "Range"}
                    /\ \E e \in DOMAIN types : Arms("kind")[i].kind.arg = types[e].variant

C2_Witness ==
    /\ pc = "done"
    /\ \E o \in DOMAIN types : types[o].kind = <<"A">> /\ types[o].element \in DOMAIN types

(***************************************************************************)
(* C3.  If two non-filtered data rows of the type snapshot carry the same  *)
(* oid, the run aborts and never goes on to emission.  The code lets the   *)
(* later row replace the earlier one, so this fails.                       *)
(***************************************************************************)
C3_DuplicateOidAborts ==
    Emitting =>
        LET rows == TypeRows
        IN  ~ \E i, j \in DOMAIN rows :
                 /\ i < j
                 /\ Retained(rows[i])
                 /\ Retained(rows[j])
                 /\ rows[i].oid.val = rows[j].oid.val

(***************************************************************************)
(* C4.  No enumeration or lookup block that is written holds the same      *)
(* variant label twice.  The code never compares labels, so this fails.    *)
(***************************************************************************)
C4_LabelsDistinct ==
    \A name \in {"enum", "from_oid"} :
        HasBlock(name) =>
            \A i, j \in DOMAIN Arms(name) :
                i # j => Arms(name)[i].variant # Arms(name)[j].variant

(***************************************************************************)
(* C5.  In the finished output, from_oid followed by oid gives back every  *)
(* oid of the catalog, and from_oid finds no other oid.  With a repeated   *)
(* label (C4) the first oid arm of the label answers, so this fails.       *)
(***************************************************************************)
ProbedOids == 0..9

C5_RoundTrip ==
    pc = "done" =>
        \A o \in ProbedOids :
            IF o \in DOMAIN types
            THEN /\ FromOid(Arms("from_oid"), o).found
                 /\ OidOfVariant(Arms("oid"), FromOid(Arms("from_oid"), o).variant) = o
            ELSE ~FromOid(Arms("from_oid"), o).found

(***************************************************************************)
(* C6.  The variant derivation is injective: two records of the catalog    *)
(* with different names have different variant labels.  "_x" and           *)
(* "x_array" both give XArray, so this fails.                              *)
(***************************************************************************)
C6_VariantInjective ==
    \A o1, o2 \in DOMAIN types :
        types[o1].name # types[o2].name => types[o1].variant # types[o2].variant

(***************************************************************************)
(* C7.  A composite or enum row never produces a record.                   *)
(*                                                                         *)
(* As claimed: the oid of such a row is never a key of the catalog, and    *)
(* neither its oid, its name nor its variant stands in any block, whatever *)
(* the other rows are.  This fails when a retained row carries the same    *)
(* oid.                                                                    *)
(*                                                                         *)
(* As amended: reading such a row changes neither the catalog nor the      *)
(* output; a record enters the catalog only as the row just read, which is *)
(* no composite or enum row, under that row's oid, name and kind; and      *)
(* every arm of every block is that of a record of the catalog.  So the    *)
(* oid, name or variant of a composite or enum row is a key or stands in a *)
(* block only where a retained row carries the same one.                   *)
(***************************************************************************)
OidWritten(oid) ==
    \E name \in {"from_oid", "oid"} :
        HasBlock(name) /\ \E i \in DOMAIN Arms(name) : Arms(name)[i].oid = oid

NameWritten(n) ==
    HasBlock("name") /\ \E i \in DOMAIN Arms("name") : Arms("name")[i].name = n

VariantWritten(v) ==
    \/ \E name \in RecordBlocks :
          HasBlock(name) /\ \E i \in DOMAIN Arms(name) : Arms(name)[i].variant = v
    \/ HasBlock("kind") /\ \E i \in DOMAIN Arms("kind") : Arms("kind")[i].kind.arg = v

C7_FilteredRowAbsent ==
    LET rows == TypeRows
    IN  \A i \in DOMAIN rows :
            CompositeOrEnum(rows[i]) =>
                /\ rows[i].oid.val \notin DOMAIN types
                /\ ~OidWritten(rows[i].oid.val)
                /\ ~NameWritten(rows[i].name)
                /\ ~VariantWritten(Variant(rows[i].name))

TypeLineRead == pc = "parse_types" /\ ti <= Len(pg_type_h) /\ DataRow(pg_type_h[ti])

\* The catalog after the step is the catalog before it with the row's
\* record put under the row's oid.
RecordEnters(row) ==
    /\ DOMAIN types' = DOMAIN types \cup {row.oid.val}
    /\ \A o \in DOMAIN types \ {row.oid.val} : types'[o] = types[o]
    /\ types'[row.oid.val].name = row.name
    /\ types'[row.oid.val].kind = row.kind
    /\ types'[row.oid.val].variant = Variant(row.name)

\* Every arm written is that of a record of the catalog.
ArmsFromCatalog ==
    \A b \in DOMAIN buf :
        \A a \in DOMAIN buf[b].entries :
            \E o \in DOMAIN types :
                /\ buf[b].entries[a].variant = types[o].variant
                /\ buf[b].block \in {"from_oid", "oid"} => buf[b].entries[a].oid = o
                /\ buf[b].block = "name" => buf[b].entries[a].name = types[o].name
                /\ buf[b].block = "enum" => buf[b].entries[a].doc = types[o].doc
                /\ (buf[b].block = "kind" /\ buf[b].entries[a].kind.arg # <<>>) =>
                      \E e \in DOMAIN types :
                          buf[b].entries[a].kind.arg = types[e].variant

C7_FilteredRowProducesNothing ==
    [][/\ (TypeLineRead /\ CompositeOrEnum(Row(pg_type_h[ti]))) =>
              (types' = types /\ buf' = buf /\ pc' = pc /\ ti' = ti + 1)
       /\ types' # types =>
              (TypeLineRead /\ Retained(Row(pg_type_h[ti]))
                            /\ RecordEnters(Row(pg_type_h[ti])))
       /\ ArmsFromCatalog']_vars

C7_Witness ==
    /\ pc = "done"
    /\ types # EmptyMap
    /\ \E i \in DOMAIN pg_type_h : CompositeOrEnum(Row(pg_type_h[i]))

(***************************************************************************)
(* C8.  What parse_ranges records for a line it reads.                     *)
(*                                                                         *)
(* As claimed: for a data row, the pair of the fields at the 0-indexed     *)
(* positions 3 and 4; for any other line, nothing.  The code reads the     *)
(* positions 2 and 3, so this fails.                                       *)
(*                                                                         *)
(* As amended: the pair of the fields at the 0-indexed positions 2 and 3.  *)
(***************************************************************************)
RangeLineRead == pc = "parse_ranges" /\ ri <= Len(pg_range_h) /\ ri' = ri + 1

Records(line, oidAt, elementAt) ==
    LET split == SplitWhitespace(line)
        oid == ParseU32(split[oidAt + 1])
        element == ParseU32(split[elementAt + 1])
    IN  /\ Len(split) > elementAt
        /\ oid.ok
        /\ element.ok
        /\ ranges' = [o \in DOMAIN ranges \cup {oid.val} |->
                         IF o = oid.val THEN element.val ELSE ranges[o]]

C8_RecordsFields3And4 ==
    [][RangeLineRead =>
          IF DataRow(pg_range_h[ri])
          THEN Records(pg_range_h[ri], 3, 4)
          ELSE ranges' = ranges]_vars

C8_RecordsFields2And3 ==
    [][RangeLineRead =>
          IF DataRow(pg_range_h[ri])
          THEN Records(pg_range_h[ri], 2, 3)
          ELSE ranges' = ranges]_vars

C8_Witness ==
    /\ pc = "parse_types"
    /\ \E i \in DOMAIN pg_range_h : DataRow(pg_range_h[i])
    /\ \E i \in DOMAIN pg_range_h : ~DataRow(pg_range_h[i])
    /\ ranges # EmptyMap

(***************************************************************************)
(* C9.  Which data rows of the type snapshot abort the run.                *)
(*                                                                         *)
(* As claimed: every data row with too few fields for the static           *)
(* element-oid position, a non-numeric oid or a non-numeric static         *)
(* element-oid field aborts the run at that row, also a composite or enum  *)
(* row and a row whose oid is in the range map.  The code reads the        *)
(* static element-oid field of neither, so this fails.                     *)
(*                                                                         *)
(* As amended: a data row aborts the run at that row exactly when its oid, *)
(* name or kind field is missing, its oid is not numeric, or it is neither *)
(* a composite or enum row nor a row whose oid is in the range map and its *)
(* static element-oid field is missing or not numeric.  Nothing is read or *)
(* written after an abort.                                                 *)
(***************************************************************************)
AbortsHere ==
    /\ pc' = "aborted"
    /\ ti' = ti
    /\ types' = types
    /\ buf' = <<>>

FailsExpectations(row) ==
    \/ row.fields < 17
    \/ ~row.oid.ok
    \/ ~row.element.ok

FailsWhatIsRead(row) ==
    \/ row.fields < 12
    \/ ~row.oid.ok
    \/ /\ row.kind \notin {<<"C">>, <<"E">>}
       /\ row.oid.val \notin DOMAIN ranges
       /\ (row.fields < 17 \/ ~row.element.ok)

C9_MalformedRowAborts ==
    [][/\ pc # "aborted"
       /\ (TypeLineRead /\ FailsExpectations(Row(pg_type_h[ti]))) => AbortsHere]_vars

C9_UnreadableRowAborts ==
    [][/\ pc # "aborted"
       /\ TypeLineRead =>
             IF FailsWhatIsRead(Row(pg_type_h[ti]))
             THEN AbortsHere
             ELSE pc' = "parse_types" /\ ti' = ti + 1]_vars

C9_Witness ==
    /\ pc = "aborted"
    /\ ti \in 2..Len(pg_type_h)
    /\ LET row == Row(pg_type_h[ti])
       IN  row.data /\ row.fields >= 17 /\ row.oid.ok /\ ~row.element.ok

(***************************************************************************)
(* C10.  Nothing is written until parse_ranges and parse_types have read   *)
(* their whole snapshots; the blocks are then written once each in the     *)
(* order header, enumeration, formatting, accessors; and the arms of every *)
(* block that has one arm per record follow the ascending order of the     *)
(* oids: the i-th arm is that of the record with i - 1 smaller oids.       *)
(***************************************************************************)
Rank(oid) == Cardinality({k \in DOMAIN types : k < oid}) + 1

ArmsAscend(name) ==
    /\ Len(Arms(name)) <= Cardinality(DOMAIN types)
    /\ (name # "kind" \/ Completed) => Len(Arms(name)) = Cardinality(DOMAIN types)
    /\ \A i \in DOMAIN Arms(name) :
          \E o \in DOMAIN types :
             /\ Rank(o) = i
             /\ Arms(name)[i].variant = types[o].variant
             /\ name \in {"from_oid", "oid"} => Arms(name)[i].oid = o
             /\ name = "enum" => Arms(name)[i].doc = types[o].doc
             /\ name = "name" => Arms(name)[i].name = types[o].name

C10_ParseThenEmitInOrder ==
    /\ pc \in {"create", "parse_ranges", "parse_types", "make_header"} => buf = <<>>
    /\ buf # <<>> => ri > Len(pg_range_h) /\ ti > Len(pg_type_h)
    /\ BlockNames = SubSeq(BlockOrder, 1, Len(buf))
    /\ pc = "make_enum" => Len(buf) = 1
    /\ pc = "make_display_impl" => Len(buf) = 2
    /\ pc = "make_impl" => Len(buf) = 3
    /\ Completed => BlockNames = BlockOrder
    /\ \A name \in RecordBlocks : HasBlock(name) => ArmsAscend(name)

C10_Witness ==
    /\ pc = "done"
    /\ Cardinality(DOMAIN types) >= 2
    /\ disk = buf

====
